---- MODULE Spec2Model ----
(***************************************************************************)
(* p2pfs core: the two MessageServer transports.                           *)
(*                                                                         *)
(*   src/p2pfs/core/utils.py   thread-per-connection server (SpecThread)   *)
(*   src/p2pfs/core/server.py  asyncio server with a writer registry       *)
(*                             (SpecAsync)                                 *)
(*                                                                         *)
(* Bytes are the integers 0..255, byte strings are sequences of them.      *)
(***************************************************************************)
EXTENDS Integers, Sequences, FiniteSets, TLC

\* ------------------------------------------------------------------ bounds

\* Frames (or fragments of frames) the peers write, all connections together.
MaxFrames == 2

\* The connections: two, the least that can run side by side.
Conns == {1, 2}

\* ------------------------------------------------------------ byte strings

Min(a, b) == IF a < b THEN a ELSE b

Drop(s, n) == SubSeq(s, n + 1, Len(s))

Take(s, n) == SubSeq(s, 1, n)

RECURSIVE Concat(_)
Concat(ss) == IF ss = <<>> THEN <<>> ELSE Head(ss) \o Concat(Tail(ss))

IsPrefix(p, s) == Len(p) <= Len(s) /\ Take(s, Len(p)) = p

\* struct.pack('>I', n): four bytes, most significant first.
Pack(n) ==
    << (n \div 16777216) % 256, (n \div 65536) % 256, (n \div 256) % 256, n % 256 >>

\* struct.unpack('>I', raw)[0] for a four byte string.
Unpack(raw) == raw[1] * 16777216 + raw[2] * 65536 + raw[3] * 256 + raw[4]

\* -------------------------------------------------------------------- JSON
\* json.loads on the documents of this model: objects whose keys are strings
\* and whose values are non-negative integers or objects, and bare
\* non-negative integers, with white space between the tokens.

\* The characters of the documents, as bytes.
Ch ==
    [lbrace |-> 123, rbrace |-> 125, quote |-> 34, colon |-> 58, comma |-> 44,
     backslash |-> 92, zero |-> 48, nine |-> 57]

\* A value.  k: "int" | "obj" | "bytes" | "none"; m: the object's members,
\* <<key, value>> pairs in insertion order.
JInt(n) == [k |-> "int", n |-> n, m |-> <<>>]

JObj(members) == [k |-> "obj", n |-> 0, m |-> members]

NoValue == [k |-> "none", n |-> 0, m |-> <<>>]

ParseFail == [ok |-> FALSE, val |-> NoValue, next |-> 0]

ParseOk(v, i) == [ok |-> TRUE, val |-> v, next |-> i]

IsDigit(ch) == ch >= Ch.zero /\ ch <= Ch.nine

RECURSIVE ScanDigits(_, _)
ScanDigits(s, i) ==
    IF i <= Len(s) /\ IsDigit(s[i]) THEN ScanDigits(s, i + 1) ELSE i

RECURSIVE DigitsValue(_, _, _)
DigitsValue(s, i, j) ==
    IF j <= i THEN 0 ELSE DigitsValue(s, i, j - 1) * 10 + (s[j - 1] - Ch.zero)

\* An integer literal at s[i]: "0", or a non-zero digit and more digits.
ParseNumber(s, i) ==
    IF i > Len(s) \/ ~IsDigit(s[i]) THEN ParseFail
    ELSE IF s[i] = Ch.zero THEN ParseOk(JInt(0), i + 1)
    ELSE LET j == ScanDigits(s, i) IN ParseOk(JInt(DigitsValue(s, i, j)), j)

RECURSIVE ScanString(_, _)
\* Index of the closing quote of the string whose body starts at s[i],
\* or 0 when the string is unterminated or holds a character json rejects.
ScanString(s, i) ==
    IF i > Len(s) THEN 0
    ELSE IF s[i] = Ch.quote THEN i
    ELSE IF s[i] < 32 \/ s[i] = Ch.backslash THEN 0
    ELSE ScanString(s, i + 1)

\* A string literal at s[i]; val.m holds its characters.
ParseString(s, i) ==
    IF i > Len(s) \/ s[i] # Ch.quote THEN ParseFail
    ELSE LET j == ScanString(s, i + 1) IN
         IF j = 0 THEN ParseFail
         ELSE [ok |-> TRUE, val |-> SubSeq(s, i + 1, j - 1), next |-> j + 1]

RECURSIVE PutMember(_, _, _)
\* dict[key] = value: a repeated key keeps its place and takes the new value.
PutMember(members, key, value) ==
    IF members = <<>> THEN << <<key, value>> >>
    ELSE IF Head(members)[1] = key THEN << <<key, value>> >> \o Tail(members)
    ELSE << Head(members) >> \o PutMember(Tail(members), key, value)

\* White space between the tokens of a document: the index of the first
\* character at or after s[i] that is none.
RECURSIVE SkipWs(_, _)
SkipWs(s, i) ==
    IF i <= Len(s) /\ s[i] \in {32, 9, 10, 13} THEN SkipWs(s, i + 1) ELSE i

RECURSIVE ParseValue(_, _)
RECURSIVE ParseMembers(_, _, _)
ParseValue(s, i) ==
    IF i > Len(s) THEN ParseFail
    ELSE IF s[i] = Ch.lbrace
         THEN LET j == SkipWs(s, i + 1) IN
              IF j <= Len(s) /\ s[j] = Ch.rbrace
              THEN ParseOk(JObj(<<>>), j + 1)
              ELSE ParseMembers(s, j, <<>>)
         ELSE ParseNumber(s, i)

ParseMembers(s, i, acc) ==
    LET key == ParseString(s, i) IN
    IF ~key.ok THEN ParseFail
    ELSE LET c == SkipWs(s, key.next) IN
         IF c > Len(s) \/ s[c] # Ch.colon THEN ParseFail
         ELSE LET v == ParseValue(s, SkipWs(s, c + 1)) IN
              IF ~v.ok THEN ParseFail
              ELSE LET e == SkipWs(s, v.next)
                       acc2 == PutMember(acc, key.val, v.val)
                   IN IF e > Len(s) THEN ParseFail
                      ELSE IF s[e] = Ch.comma
                           THEN ParseMembers(s, SkipWs(s, e + 1), acc2)
                      ELSE IF s[e] = Ch.rbrace THEN ParseOk(JObj(acc2), e + 1)
                      ELSE ParseFail

\* bytes.decode('utf-8'): every byte of the model's alphabet below 0x80 is
\* itself; 0xFF never occurs in UTF-8 (UnicodeDecodeError).
Utf8Ok(raw) == \A i \in 1..Len(raw) : raw[i] < 128

\* json.loads(raw.decode('utf-8')): the value, or ok = FALSE for the
\* ValueError (UnicodeDecodeError, JSONDecodeError) it raises.
JsonLoads(raw) ==
    IF ~Utf8Ok(raw) THEN ParseFail
    ELSE LET r == ParseValue(raw, SkipWs(raw, 1)) IN
         IF r.ok /\ SkipWs(raw, r.next) = Len(raw) + 1 THEN r ELSE ParseFail

\* A value json cannot serialize: a bytes object, as the 'data' of a chunk.
JBytes == [k |-> "bytes", n |-> 0, m |-> <<>>]

\* json.dumps(value) returns (it raises TypeError on a bytes object).
RECURSIVE Serializable(_)
Serializable(v) ==
    /\ v.k \in {"int", "obj"}
    /\ v.k = "obj" => \A i \in 1..Len(v.m) : Serializable(v.m[i][2])

\* str(n) for n >= 0, as bytes.
RECURSIVE DumpInt(_)
DumpInt(n) ==
    IF n < 10 THEN <<Ch.zero + n>> ELSE DumpInt(n \div 10) \o <<Ch.zero + (n % 10)>>

\* A faulty encoding, which writes the key as str(dict) does, in single
\* quotes.
DumpKey_repr(key) == <<39>> \o key \o <<39, Ch.colon, 32>>

\* json.dumps: the key of a member and the separator ': ' after it.
DumpKey(key) == <<Ch.quote>> \o key \o <<Ch.quote, Ch.colon, 32>>

\* json.dumps(value).encode('utf-8') with the default separators ', ' and
\* ': ', members in the order of the dict.
RECURSIVE JsonDumps(_)
RECURSIVE DumpMembers(_)
JsonDumps(v) ==
    IF v.k = "int" THEN DumpInt(v.n)
    ELSE <<Ch.lbrace>> \o DumpMembers(v.m) \o <<Ch.rbrace>>

DumpMembers(members) ==
    IF members = <<>> THEN <<>>
    ELSE DumpKey(Head(members)[1])
         \o JsonDumps(Head(members)[2])
         \o (IF Len(members) > 1 THEN <<Ch.comma, 32>> ELSE <<>>)
         \o DumpMembers(Tail(members))

\* ------------------------------------------------------------------- peers
\* What the peers write.  Payloads, as the bytes of their JSON text:

\* {"type":1}
PayloadRegister == <<123, 34, 116, 121, 112, 101, 34, 58, 49, 125>>

\* 7   (valid JSON, not a mapping)
PayloadNumber == <<55>>

\* {   (invalid JSON)
PayloadBroken == <<123>>

\* one byte that is not UTF-8
PayloadNotUtf8 == <<255>>

\* length header and payload, as a well-behaved peer frames them
Frame(payload) == Pack(Len(payload)) \o payload

GoodFrames == {Frame(PayloadRegister), Frame(PayloadNumber)}

\* Frames whose payload does not parse: invalid JSON, and no payload at all.
BadFrames == {Frame(PayloadBroken), Frame(<<>>)}

\* A peer that stops in the middle of a header, or of a payload.
Fragments == {Take(Frame(PayloadRegister), 2), Take(Frame(PayloadRegister), 7)}

Items == GoodFrames \cup BadFrames \cup Fragments

\* ------------------------------------------------------- server.py: codec

\* zstd, as far as _read_message and _write_message rely on it: compress
\* wraps the bytes in a frame (magic number, content size), decompress takes
\* the frame off again and raises ZstdError on anything that is no frame.
ZstdMagic == <<40, 181, 47, 253>>

Compress(raw) == ZstdMagic \o <<Len(raw)>> \o raw

Decompress(z) ==
    IF Len(z) >= 5 /\ Take(z, 4) = ZstdMagic /\ z[5] = Len(z) - 5
    THEN [ok |-> TRUE, val |-> Drop(z, 5)]
    ELSE [ok |-> FALSE, val |-> <<>>]

\* The values of MessageType: auto() numbers the members from 1.
MessageType == 1..13

TypeKey == <<116, 121, 112, 101>>

\* message[key]: the value of the member with this key, or NoValue.
RECURSIVE Member(_, _)
Member(members, key) ==
    IF members = <<>> THEN NoValue
    ELSE IF Head(members)[1] = key THEN Head(members)[2]
    ELSE Member(Tail(members), key)

\* __message_log(message) returns: message is a mapping with a 'type' that
\* is a value of MessageType.  Otherwise it raises (TypeError, KeyError,
\* ValueError).
message_log_ok(msg) ==
    /\ msg.k = "obj"
    /\ Member(msg.m, TypeKey).k = "int"
    /\ Member(msg.m, TypeKey).n \in MessageType

\* length header and compressed payload, as _write_message frames them
ZFrame(payload) == Frame(Compress(payload))

\* What the peers of the asyncio server write: a framed message, a framed
\* number, a framed byte that is not UTF-8, a frame that is not compressed,
\* an empty frame and a frame cut short.
AsyncItems ==
    {ZFrame(PayloadRegister), ZFrame(PayloadNumber), ZFrame(PayloadNotUtf8),
     Frame(PayloadRegister), Frame(<<>>), Take(ZFrame(PayloadRegister), 7)}

\* ------------------------------------------------------------------- state

VARIABLES
    \* utils.py
    listening,      \* listen() has called self._sock.listen
    pc,             \* per connection: where its thread is
    data,           \* per connection: _recvall's data
    msglen,         \* per connection: _read_message's msglen
    rpos,           \* per connection: bytes the socket has handed to recv
    written,        \* per connection: what the peer wrote, item by item
    peer,           \* per connection: "open" | "closed" | "reset"
    hooks,          \* per connection: the hook calls made for it, in order
    units,          \* per connection: the threads listen() started for it
    out,            \* per connection: the bytes sendall wrote to it
    wfail,          \* per connection: the calls of _write_message that raised
    \* server.py
    serving,        \* start() has started the asyncio server
    writers,        \* self._writers
    closing,        \* the writers close() was called on
    stopped,        \* stop(): "idle" | "returned" | "raised"
    atStop,         \* self._writers as stop() found it
    apc,            \* per connection: where its __new_connection task is
    amsglen,        \* per connection: _read_message's msglen
    arpos,          \* per connection: bytes the StreamReader has handed out
    awritten,       \* per connection: what the peer wrote, item by item
    apeer,          \* per connection: "open" | "closed"
    amsgs,          \* per connection: the messages dispatched, in order
    \* the two codecs, end to end
    cz,             \* TRUE: server.py's codec (zstd); FALSE: utils.py's
    cframes,        \* what _write_message wrote to the stream, call by call
    csent,          \* the messages of the calls that wrote
    cfailed,        \* the number of calls of _write_message that raised
    cpc,            \* the reader: "hdr" | "body" | "failed"
    cpos,           \* the bytes the reader has consumed
    cmsglen,        \* the reader's msglen
    cgot,           \* the messages _read_message returned, in order
    \* the registry, on its own
    reg,            \* a set of writers, as self._writers
    rw,             \* the writer to remove
    rres            \* "pending" | "removed" | "KeyError"

tvars == <<listening, pc, data, msglen, rpos, written, peer, hooks, units,
           out, wfail>>

avars == <<serving, writers, closing, stopped, atStop, apc, amsglen, arpos,
           awritten, apeer, amsgs>>

cvars == <<cz, cframes, csent, cfailed, cpc, cpos, cmsglen, cgot, reg, rw,
           rres>>

vars == <<tvars, avars, cvars>>

\* All the bytes the peer of c has written.
Sent(c) == Concat(written[c])

TotalWritten == LET RECURSIVE Sum(_)
                    Sum(S) == IF S = {} THEN 0
                              ELSE LET c == CHOOSE x \in S : TRUE
                                   IN Len(written[c]) + Sum(S \ {c})
                IN Sum(Conns)

ConnectEvent == [h |-> "connect", msg |-> NoValue]

MessageEvent(m) == [h |-> "message", msg |-> m]

DisconnectEvent == [h |-> "disconnect", msg |-> NoValue]

Reading == {"hdr", "body"}

AsyncInit ==
    /\ serving = FALSE
    /\ writers = {}
    /\ closing = {}
    /\ stopped = "idle"
    /\ atStop = {}
    /\ apc = [c \in Conns |-> "none"]
    /\ amsglen = [c \in Conns |-> 0]
    /\ arpos = [c \in Conns |-> 0]
    /\ awritten = [c \in Conns |-> <<>>]
    /\ apeer = [c \in Conns |-> "open"]
    /\ amsgs = [c \in Conns |-> <<>>]

\* The codec and the registry on their own, at rest.
CodecIdle ==
    /\ cz = FALSE
    /\ cframes = <<>>
    /\ csent = <<>>
    /\ cfailed = 0
    /\ cpc = "hdr"
    /\ cpos = 0
    /\ cmsglen = 0
    /\ cgot = <<>>
    /\ reg = {}
    /\ rw = 1
    /\ rres = "pending"

ThreadInit ==
    /\ listening = FALSE
    /\ pc = [c \in Conns |-> "none"]
    /\ data = [c \in Conns |-> <<>>]
    /\ msglen = [c \in Conns |-> 0]
    /\ rpos = [c \in Conns |-> 0]
    /\ written = [c \in Conns |-> <<>>]
    /\ peer = [c \in Conns |-> "open"]
    /\ hooks = [c \in Conns |-> <<>>]
    /\ units = [c \in Conns |-> 0]
    /\ out = [c \in Conns |-> <<>>]
    /\ wfail = [c \in Conns |-> 0]

\* ------------------------------------------------ what the hooks were given

\* The messages _process_message was called with for c, in call order.
RECURSIVE MessagesOf(_)
MessagesOf(events) ==
    IF events = <<>> THEN <<>>
    ELSE IF Head(events).h = "message"
         THEN <<Head(events).msg>> \o MessagesOf(Tail(events))
         ELSE MessagesOf(Tail(events))

Messages(c) == MessagesOf(hooks[c])

RECURSIVE CountOf(_, _)
CountOf(events, h) ==
    IF events = <<>> THEN 0
    ELSE (IF Head(events).h = h THEN 1 ELSE 0) + CountOf(Tail(events), h)

\* Threads that have left _read_message on an exception nothing caught.
Died == {"died_decode", "died_hook", "died_struct", "died_oserror"}

\* ------------------------------------------------- utils.py: MessageServer

\* listen(), up to its loop.
listen ==
    /\ ~listening
    /\ listening' = TRUE
    /\ UNCHANGED <<pc, data, msglen, rpos, written, peer, hooks>>
    /\ UNCHANGED <<units, out, wfail>>
    /\ UNCHANGED <<avars, cvars>>

\* A faulty listen(), which starts the thread before _client_connected and
\* once more after it.
accept_twice(c) ==
    /\ listening
    /\ pc[c] = "none"
    /\ hooks' = [hooks EXCEPT ![c] = Append(@, ConnectEvent)]
    /\ units' = [units EXCEPT ![c] = @ + 2]
    /\ pc' = [pc EXCEPT ![c] = "hdr"]
    /\ UNCHANGED <<listening, data, msglen, rpos, written, peer, out, wfail>>
    /\ UNCHANGED <<avars, cvars>>

\* One turn of listen()'s loop: accept returns a connection it has not
\* returned before, _client_connected is called, one thread is started.
accept(c) ==
    /\ listening
    /\ pc[c] = "none"
    /\ hooks' = [hooks EXCEPT ![c] = Append(@, ConnectEvent)]
    /\ units' = [units EXCEPT ![c] = @ + 1]
    /\ pc' = [pc EXCEPT ![c] = "hdr"]
    /\ UNCHANGED <<listening, data, msglen, rpos, written, peer, out, wfail>>
    /\ UNCHANGED <<avars, cvars>>

\* A faulty _recvall, which asks for all n bytes on every turn of its loop.
recv_size_whole(n, d) == n

\* _recvall: the size it asks recv for.
recv_size(n, d) == n - Len(d)

\* _write_message, lines 52-53: the bytes it hands to sendall; ok = FALSE
\* when json.dumps raises TypeError, before anything is sent.
write_message(message) ==
    IF ~Serializable(message) THEN [ok |-> FALSE, val |-> <<>>]
    ELSE LET raw_msg == JsonDumps(message)
         IN [ok |-> TRUE, val |-> Pack(Len(raw_msg)) \o raw_msg]

\* What a hook does with the connection it was called for: it writes
\* nothing (NoValue), or it calls _write_message with a message.
ReplyOk == JObj(<< <<TypeKey, JInt(2)>> >>)

DataKey == <<100, 97, 116, 97>>

\* a chunk whose 'data' is a bytes object
ReplyBytes == JObj(<< <<TypeKey, JInt(13)>>, <<DataKey, JBytes>> >>)

Replies == {NoValue, ReplyOk, ReplyBytes}

\* _process_message's call of _write_message(client, reply), lines 49-54.
process_message_write(c, reply) ==
    LET w == write_message(reply) IN
    /\ out' = [out EXCEPT ![c] = IF reply # NoValue /\ w.ok THEN @ \o w.val ELSE @]
    /\ wfail' = [wfail EXCEPT ![c] = IF reply # NoValue /\ ~w.ok THEN @ + 1 ELSE @]

\* A faulty _read_message, which hands the message to a worker that may
\* overtake the one before it.
read_message_deliver_overtake(c, raw, raises, reply) ==
    LET r == JsonLoads(raw)
        n == Len(hooks[c])
    IN
    IF ~r.ok
    THEN /\ pc' = [pc EXCEPT ![c] = "died_decode"]
         /\ UNCHANGED <<hooks, out, wfail>>
    ELSE /\ hooks' = [hooks EXCEPT ![c] =
                IF n > 0 /\ @[n].h = "message"
                THEN Take(@, n - 1) \o <<MessageEvent(r.val), @[n]>>
                ELSE Append(@, MessageEvent(r.val))]
         /\ process_message_write(c, reply)
         /\ pc' = [pc EXCEPT ![c] = IF raises THEN "died_hook" ELSE "hdr"]

\* A faulty _read_message, in which a payload that does not decode ends the
\* process, and with it every thread.
read_message_deliver_fatal(c, raw, raises, reply) ==
    LET r == JsonLoads(raw) IN
    IF ~r.ok
    THEN /\ pc' = [d \in Conns |-> IF pc[d] \in Reading THEN "died_decode" ELSE pc[d]]
         /\ UNCHANGED <<hooks, out, wfail>>
    ELSE /\ hooks' = [hooks EXCEPT ![c] = Append(@, MessageEvent(r.val))]
         /\ process_message_write(c, reply)
         /\ pc' = [pc EXCEPT ![c] = IF raises THEN "died_hook" ELSE "hdr"]

\* _read_message, lines 42-44: decode the payload and call _process_message,
\* which may write a reply, and returns or raises (raises: it raises, or lets
\* the error of its write through).  A ValueError of the decoding and an
\* exception of the hook both leave the thread: only EOFError is caught.
read_message_deliver(c, raw, raises, reply) ==
    LET r == JsonLoads(raw) IN
    IF ~r.ok
    THEN /\ pc' = [pc EXCEPT ![c] = "died_decode"]
         /\ UNCHANGED <<hooks, out, wfail>>
    ELSE /\ hooks' = [hooks EXCEPT ![c] = Append(@, MessageEvent(r.val))]
         /\ process_message_write(c, reply)
         /\ pc' = [pc EXCEPT ![c] = IF raises THEN "died_hook" ELSE "hdr"]

\* _read_message, lines 40-41: the header is in; a length of 0 makes
\* _recvall return b'' without a recv.
read_message_header(c, raw, raises, reply) ==
    IF Len(raw) # 4
    THEN /\ pc' = [pc EXCEPT ![c] = "died_struct"]
         /\ UNCHANGED <<msglen, hooks, out, wfail>>
    ELSE /\ msglen' = [msglen EXCEPT ![c] = Unpack(raw)]
         /\ IF Unpack(raw) = 0
            THEN read_message_deliver(c, <<>>, raises, reply)
            ELSE /\ pc' = [pc EXCEPT ![c] = "body"]
                 /\ reply = NoValue
                 /\ UNCHANGED <<hooks, out, wfail>>

\* One sock.recv of _recvall that returns k > 0 bytes, and what follows it
\* until the thread blocks in the next recv.  recv returns what is there, up
\* to the size asked for.  raises and reply are what the hook does, if this
\* recv completes a message.
recv(c, raises, reply) ==
    /\ pc[c] \in Reading
    /\ LET n == IF pc[c] = "hdr" THEN 4 ELSE msglen[c]
           sent == Sent(c)
       IN \E k \in 1..Min(recv_size(n, data[c]), Len(sent) - rpos[c]) :
          LET packet == SubSeq(sent, rpos[c] + 1, rpos[c] + k)
              d == data[c] \o packet
          IN
          /\ rpos' = [rpos EXCEPT ![c] = @ + k]
          /\ IF Len(d) < n
             THEN /\ ~raises
                  /\ reply = NoValue
                  /\ data' = [data EXCEPT ![c] = d]
                  /\ UNCHANGED <<pc, msglen, hooks, out, wfail>>
             ELSE /\ data' = [data EXCEPT ![c] = <<>>]
                  /\ IF pc[c] = "hdr"
                     THEN read_message_header(c, d, raises, reply)
                     ELSE /\ read_message_deliver(c, d, raises, reply)
                          /\ UNCHANGED msglen
    /\ UNCHANGED <<listening, written, peer, units>>
    /\ UNCHANGED <<avars, cvars>>

\* A faulty _recvall, which raises an error that _read_message does not
\* catch.
recv_eof_uncaught(c) ==
    /\ pc[c] \in Reading
    /\ peer[c] = "closed"
    /\ rpos[c] = Len(Sent(c))
    /\ pc' = [pc EXCEPT ![c] = "died_oserror"]
    /\ UNCHANGED <<listening, data, msglen, rpos, written, peer, hooks>>
    /\ UNCHANGED <<units, out, wfail>>
    /\ UNCHANGED <<avars, cvars>>

\* A faulty _read_message, whose except clause sits inside the loop:
\* _client_closed is called and the loop goes on.
recv_eof_continue(c) ==
    /\ pc[c] \in Reading
    /\ peer[c] = "closed"
    /\ rpos[c] = Len(Sent(c))
    /\ CountOf(hooks[c], "disconnect") < 2
    /\ hooks' = [hooks EXCEPT ![c] = Append(@, DisconnectEvent)]
    /\ UNCHANGED <<listening, pc, data, msglen, rpos, written, peer>>
    /\ UNCHANGED <<units, out, wfail>>
    /\ UNCHANGED <<avars, cvars>>

\* A faulty _recvall, which raises EOFError as soon as the peer has closed,
\* whatever is still unread.
recv_eof_early(c) ==
    /\ pc[c] \in Reading
    /\ peer[c] = "closed"
    /\ hooks' = [hooks EXCEPT ![c] = Append(@, DisconnectEvent)]
    /\ pc' = [pc EXCEPT ![c] = "closed"]
    /\ UNCHANGED <<listening, data, msglen, rpos, written, peer>>
    /\ UNCHANGED <<units, out, wfail>>
    /\ UNCHANGED <<avars, cvars>>

\* sock.recv returns b'' (the peer closed and every byte was read):
\* _recvall raises EOFError, _read_message catches it and calls _client_closed.
recv_eof(c) ==
    /\ pc[c] \in Reading
    /\ peer[c] = "closed"
    /\ rpos[c] = Len(Sent(c))
    /\ hooks' = [hooks EXCEPT ![c] = Append(@, DisconnectEvent)]
    /\ pc' = [pc EXCEPT ![c] = "closed"]
    /\ UNCHANGED <<listening, data, msglen, rpos, written, peer>>
    /\ UNCHANGED <<units, out, wfail>>
    /\ UNCHANGED <<avars, cvars>>

\* The peer resets the connection and sock.recv raises ConnectionResetError,
\* an OSError: nothing catches it.
recv_reset(c) ==
    /\ pc[c] \in Reading
    /\ peer[c] = "open"
    /\ peer' = [peer EXCEPT ![c] = "reset"]
    /\ pc' = [pc EXCEPT ![c] = "died_oserror"]
    /\ UNCHANGED <<listening, data, msglen, rpos, written, hooks>>
    /\ UNCHANGED <<units, out, wfail>>
    /\ UNCHANGED <<avars, cvars>>

\* ------------------------------------------------------------ environment
\* The peers write and close while a thread reads their connection;
\* what they do to a connection nobody reads any more changes nothing.

peer_send(c, item) ==
    /\ pc[c] \in Reading
    /\ peer[c] = "open"
    /\ TotalWritten < MaxFrames
    /\ written' = [written EXCEPT ![c] = Append(@, item)]
    /\ UNCHANGED <<listening, pc, data, msglen, rpos, peer, hooks>>
    /\ UNCHANGED <<units, out, wfail>>
    /\ UNCHANGED <<avars, cvars>>

peer_close(c) ==
    /\ pc[c] \in Reading
    /\ peer[c] = "open"
    /\ peer' = [peer EXCEPT ![c] = "closed"]
    /\ UNCHANGED <<listening, pc, data, msglen, rpos, written, hooks>>
    /\ UNCHANGED <<units, out, wfail>>
    /\ UNCHANGED <<avars, cvars>>

ThreadNext ==
    \/ listen
    \/ \E c \in Conns : accept(c)
    \/ \E c \in Conns, raises \in BOOLEAN : recv(c, raises, NoValue)
    \/ \E c \in Conns : recv_eof(c)
    \/ \E c \in Conns : recv_reset(c)
    \/ \E c \in Conns, item \in Items : peer_send(c, item)
    \/ \E c \in Conns : peer_close(c)

InitThread == ThreadInit /\ AsyncInit /\ CodecIdle

\* The server of utils.py with hooks that write nothing.
SpecThread == InitThread /\ [][ThreadNext]_vars

\* The same server with hooks that may answer a message with a write.
ReplyNext ==
    \/ listen
    \/ \E c \in Conns : accept(c)
    \/ \E c \in Conns, raises \in BOOLEAN, reply \in Replies :
          recv(c, raises, reply)
    \/ \E c \in Conns : recv_eof(c)
    \/ \E c \in Conns : recv_reset(c)
    \/ \E c \in Conns, item \in Items : peer_send(c, item)
    \/ \E c \in Conns : peer_close(c)

InitReply == ThreadInit /\ AsyncInit /\ CodecIdle

SpecReply == InitReply /\ [][ReplyNext]_vars

\* ------------------------------------------------ server.py: MessageServer

AReading == {"rd_hdr", "rd_body"}

ASent(c) == Concat(awritten[c])

TotalAWritten == LET RECURSIVE Sum(_)
                     Sum(S) == IF S = {} THEN 0
                               ELSE LET c == CHOOSE x \in S : TRUE
                                    IN Len(awritten[c]) + Sum(S \ {c})
                 IN Sum(Conns)

\* The StreamReader of c is at end of file: the peer closed, or close() was
\* called on the writer of c.
AtEof(c) == apeer[c] = "closed" \/ c \in closing

\* start(): asyncio.start_server; the Server it returns is dropped.
start ==
    /\ ~serving
    /\ serving' = TRUE
    /\ UNCHANGED <<writers, closing, stopped, atStop, apc, amsglen, arpos,
                   awritten, apeer, amsgs>>
    /\ UNCHANGED <<tvars, cvars>>

\* self._writers.remove(writer)
registry_remove(ws, w) == ws \ {w}

\* __new_connection, lines 81-82: the server calls it for a new connection;
\* it registers the writer and enters _process_connection, which waits for
\* the first message.
new_connection(c) ==
    /\ serving
    /\ apc[c] = "none"
    /\ writers' = writers \cup {c}
    /\ apc' = [apc EXCEPT ![c] = "rd_hdr"]
    /\ UNCHANGED <<serving, closing, stopped, atStop, amsglen, arpos,
                   awritten, apeer, amsgs>>
    /\ UNCHANGED <<tvars, cvars>>

\* __new_connection, lines 82-83: _process_connection has returned, and the
\* writer is removed; or it has raised, and line 83 is not reached.
new_connection_end(c, raised) ==
    IF raised
    THEN /\ apc' = [apc EXCEPT ![c] = "raised"]
         /\ UNCHANGED writers
    ELSE /\ apc' = [apc EXCEPT ![c] = "returned"]
         /\ writers' = registry_remove(writers, c)

\* _process_connection, whose implementations are not part of the core: the
\* loop takes a message from _read_message and dispatches it; an exception
\* of the dispatch ends the loop.
process_connection_message(c, msg, raises) ==
    /\ amsgs' = [amsgs EXCEPT ![c] = Append(@, msg)]
    /\ IF raises
       THEN new_connection_end(c, TRUE)
       ELSE /\ apc' = [apc EXCEPT ![c] = "rd_hdr"]
            /\ UNCHANGED writers

\* _process_connection: _read_message has raised.  The loop ends; the
\* implementation handles the exception and returns, or lets it through.
process_connection_failure(c, propagates) ==
    /\ new_connection_end(c, propagates)
    /\ UNCHANGED amsgs

\* _read_message, line 65-67: decompress, decode, parse, log.
read_message_decode(raw) ==
    LET z == Decompress(raw) IN
    IF ~z.ok THEN ParseFail
    ELSE LET r == JsonLoads(z.val) IN
         IF r.ok /\ message_log_ok(r.val) THEN r ELSE ParseFail

\* _read_message, lines 62-63: readexactly(4) returns and the length is
\* unpacked.  readexactly(0) returns b'' at once.
read_header(c, propagates) ==
    /\ apc[c] = "rd_hdr"
    /\ Len(ASent(c)) - arpos[c] >= 4
    /\ LET n == Unpack(SubSeq(ASent(c), arpos[c] + 1, arpos[c] + 4)) IN
       /\ arpos' = [arpos EXCEPT ![c] = @ + 4]
       /\ amsglen' = [amsglen EXCEPT ![c] = n]
       /\ IF n = 0
          THEN IF read_message_decode(<<>>).ok
               THEN process_connection_message(c, read_message_decode(<<>>).val, FALSE)
               ELSE process_connection_failure(c, propagates)
          ELSE /\ apc' = [apc EXCEPT ![c] = "rd_body"]
               /\ UNCHANGED <<writers, amsgs>>
    /\ UNCHANGED <<serving, closing, stopped, atStop, awritten, apeer>>
    /\ UNCHANGED <<tvars, cvars>>

\* _read_message, lines 64-67: readexactly(msglen) returns; the payload is
\* decoded and the message returned to _process_connection.
read_payload(c, propagates, raises) ==
    /\ apc[c] = "rd_body"
    /\ Len(ASent(c)) - arpos[c] >= amsglen[c]
    /\ LET raw == SubSeq(ASent(c), arpos[c] + 1, arpos[c] + amsglen[c])
           r == read_message_decode(raw)
       IN /\ arpos' = [arpos EXCEPT ![c] = @ + amsglen[c]]
          /\ IF r.ok
             THEN process_connection_message(c, r.val, raises)
             ELSE process_connection_failure(c, propagates)
    /\ UNCHANGED <<serving, closing, stopped, atStop, amsglen, awritten, apeer>>
    /\ UNCHANGED <<tvars, cvars>>

\* readexactly raises IncompleteReadError: end of file with fewer bytes
\* buffered than asked for.  _read_message lets it through.
read_eof(c, propagates) ==
    /\ apc[c] \in AReading
    /\ AtEof(c)
    /\ Len(ASent(c)) - arpos[c] < (IF apc[c] = "rd_hdr" THEN 4 ELSE amsglen[c])
    /\ process_connection_failure(c, propagates)
    /\ UNCHANGED <<serving, closing, stopped, atStop, amsglen, arpos,
                   awritten, apeer>>
    /\ UNCHANGED <<tvars, cvars>>

\* A faulty stop(), which takes the writer it closes out of the registry
\* while the handler of that writer is running.
stop_unregistering ==
    /\ stopped = "idle"
    /\ atStop' = writers
    /\ IF writers = {}
       THEN /\ stopped' = "returned"
            /\ UNCHANGED <<closing, writers>>
       ELSE /\ \E w \in writers : /\ closing' = closing \cup {w}
                                  /\ writers' = writers \ {w}
            /\ stopped' = "raised"
    /\ UNCHANGED <<serving, apc, amsglen, arpos, awritten, apeer, amsgs>>
    /\ UNCHANGED <<tvars, cvars>>

\* stop(): the loop over self._writers.  writer.close() is called on the
\* first writer; StreamWriter has no attribute wait_close, so the next line
\* raises AttributeError and stop() ends there.  With no writer registered
\* the loop body never runs and stop() returns.
stop ==
    /\ stopped = "idle"
    /\ atStop' = writers
    /\ IF writers = {}
       THEN /\ stopped' = "returned"
            /\ UNCHANGED closing
       ELSE /\ \E w \in writers : closing' = closing \cup {w}
            /\ stopped' = "raised"
    /\ UNCHANGED <<serving, writers, apc, amsglen, arpos, awritten, apeer, amsgs>>
    /\ UNCHANGED <<tvars, cvars>>

\* The peers of the asyncio server.
apeer_send(c, item) ==
    /\ apc[c] \in AReading
    /\ apeer[c] = "open"
    /\ c \notin closing
    /\ TotalAWritten < MaxFrames
    /\ awritten' = [awritten EXCEPT ![c] = Append(@, item)]
    /\ UNCHANGED <<serving, writers, closing, stopped, atStop, apc, amsglen,
                   arpos, apeer, amsgs>>
    /\ UNCHANGED <<tvars, cvars>>

apeer_close(c) ==
    /\ apc[c] \in AReading
    /\ apeer[c] = "open"
    /\ apeer' = [apeer EXCEPT ![c] = "closed"]
    /\ UNCHANGED <<serving, writers, closing, stopped, atStop, apc, amsglen,
                   arpos, awritten, amsgs>>
    /\ UNCHANGED <<tvars, cvars>>

AsyncNext ==
    \/ start
    \/ \E c \in Conns : new_connection(c)
    \/ \E c \in Conns, propagates \in BOOLEAN : read_header(c, propagates)
    \/ \E c \in Conns, propagates \in BOOLEAN, raises \in BOOLEAN :
            read_payload(c, propagates, raises)
    \/ \E c \in Conns, propagates \in BOOLEAN : read_eof(c, propagates)
    \/ stop
    \/ \E c \in Conns, item \in AsyncItems : apeer_send(c, item)
    \/ \E c \in Conns : apeer_close(c)

InitAsync == ThreadInit /\ AsyncInit /\ CodecIdle

SpecAsync == InitAsync /\ [][AsyncNext]_vars

\* ------------------------------------------------------- reference decoding

\* The decoding of a byte string that is all there at once, every read
\* returning all it asked for: the messages, and why the decoding stopped
\* ("eof": the bytes ran out; "malformed": a payload did not parse).
RECURSIVE DecodeWhole(_, _)
DecodeWhole(bytes, acc) ==
    IF Len(bytes) < 4 THEN [msgs |-> acc, end |-> "eof"]
    ELSE LET n == Unpack(Take(bytes, 4)) IN
         IF Len(bytes) < 4 + n THEN [msgs |-> acc, end |-> "eof"]
         ELSE LET r == JsonLoads(SubSeq(bytes, 5, 4 + n)) IN
              IF ~r.ok THEN [msgs |-> acc, end |-> "malformed"]
              ELSE DecodeWhole(Drop(bytes, 4 + n), Append(acc, r.val))

MsgRegister == JObj(<< <<(<<116, 121, 112, 101>>), JInt(1)>> >>)

MsgNumber == JInt(7)

\* ------------------------------------------- the two codecs, end to end
\* One stream: _write_message is called with messages, and _read_message
\* of the same module reads what was written, frame after frame.

MsgChunk ==
    JObj(<< <<TypeKey, JInt(13)>>,
            <<DataKey, JObj(<< <<TypeKey, JInt(0)>> >>)>> >>)

MsgSized == JObj(<< <<TypeKey, JInt(10)>>, <<DataKey, JInt(1024)>> >>)

\* What _write_message is called with: messages of recognized kinds, with
\* and without fields; an empty mapping and a number; a chunk of bytes.
CodecMsgs ==
    {MsgRegister, ReplyOk, MsgChunk, MsgSized, JObj(<<>>), MsgNumber, ReplyBytes}

\* A faulty _write_message, which packs the length of raw_msg, not of
\* compressed.
write_message_zstd_rawlen(message) ==
    IF ~message_log_ok(message) \/ ~Serializable(message)
    THEN [ok |-> FALSE, val |-> <<>>]
    ELSE LET raw_msg == JsonDumps(message)
             compressed == Compress(raw_msg)
         IN [ok |-> TRUE, val |-> Pack(Len(raw_msg)) \o compressed]

\* server.py _write_message, lines 70-76: the bytes it hands to
\* writer.write; ok = FALSE when __message_log (line 70) or json.dumps
\* (line 71) raises, before anything is written.
write_message_zstd(message) ==
    IF ~message_log_ok(message) \/ ~Serializable(message)
    THEN [ok |-> FALSE, val |-> <<>>]
    ELSE LET raw_msg == JsonDumps(message)
             compressed == Compress(raw_msg)
         IN [ok |-> TRUE, val |-> Pack(Len(compressed)) \o compressed]

CodecStream == Concat(cframes)

CodecInit ==
    /\ cz \in BOOLEAN
    /\ cframes = <<>>
    /\ csent = <<>>
    /\ cfailed = 0
    /\ cpc = "hdr"
    /\ cpos = 0
    /\ cmsglen = 0
    /\ cgot = <<>>
    /\ reg = {}
    /\ rw = 1
    /\ rres = "pending"

\* One call of _write_message: it writes a frame, or raises.
codec_write(message) ==
    /\ Len(cframes) + cfailed < MaxFrames
    /\ LET w == IF cz THEN write_message_zstd(message)
                ELSE write_message(message)
       IN IF w.ok
          THEN /\ cframes' = Append(cframes, w.val)
               /\ csent' = Append(csent, message)
               /\ UNCHANGED cfailed
          ELSE /\ cfailed' = cfailed + 1
               /\ UNCHANGED <<cframes, csent>>
    /\ UNCHANGED <<cz, cpc, cpos, cmsglen, cgot, reg, rw, rres>>
    /\ UNCHANGED <<tvars, avars>>

\* _read_message: the four bytes of the length are there (_recvall(4),
\* readexactly(4)) and are unpacked.
codec_read_header ==
    /\ cpc = "hdr"
    /\ Len(CodecStream) - cpos >= 4
    /\ cmsglen' = Unpack(SubSeq(CodecStream, cpos + 1, cpos + 4))
    /\ cpos' = cpos + 4
    /\ cpc' = "body"
    /\ UNCHANGED <<cz, cframes, csent, cfailed, cgot, reg, rw, rres>>
    /\ UNCHANGED <<tvars, avars>>

\* _read_message: msglen bytes are there and are decoded.
codec_read_payload ==
    /\ cpc = "body"
    /\ Len(CodecStream) - cpos >= cmsglen
    /\ LET raw == SubSeq(CodecStream, cpos + 1, cpos + cmsglen)
           r == IF cz THEN read_message_decode(raw) ELSE JsonLoads(raw)
       IN
       /\ cpos' = cpos + cmsglen
       /\ IF r.ok
          THEN /\ cgot' = Append(cgot, r.val)
               /\ cpc' = "hdr"
          ELSE /\ cpc' = "failed"
               /\ UNCHANGED cgot
    /\ UNCHANGED <<cz, cframes, csent, cfailed, cmsglen, reg, rw, rres>>
    /\ UNCHANGED <<tvars, avars>>

CodecNext ==
    \/ \E message \in CodecMsgs : codec_write(message)
    \/ codec_read_header
    \/ codec_read_payload

InitCodec == ThreadInit /\ AsyncInit /\ CodecInit

SpecCodec == InitCodec /\ [][CodecNext]_vars

\* -------------------------------------------------- the registry, on its own
\* self._writers under its two operations, in any order.

RegWriters == 1..5

\* self._writers.remove(writer) raises KeyError: the writer is not in the set
registry_remove_raises(ws, w) == w \notin ws

\* self._writers.add(writer)
registry_add(w) ==
    /\ reg' = reg \cup {w}
    /\ rw' = w
    /\ rres' = "added"
    /\ UNCHANGED <<cz, cframes, csent, cfailed, cpc, cpos, cmsglen, cgot>>
    /\ UNCHANGED <<tvars, avars>>

\* self._writers.remove(writer)
registry_remove_call(w) ==
    /\ rw' = w
    /\ IF registry_remove_raises(reg, w)
       THEN /\ rres' = "KeyError"
            /\ UNCHANGED reg
       ELSE /\ rres' = "removed"
            /\ reg' = registry_remove(reg, w)
    /\ UNCHANGED <<cz, cframes, csent, cfailed, cpc, cpos, cmsglen, cgot>>
    /\ UNCHANGED <<tvars, avars>>

RegistryNext ==
    \/ \E w \in RegWriters : registry_add(w)
    \/ \E w \in RegWriters : registry_remove_call(w)

InitRegistry == ThreadInit /\ AsyncInit /\ CodecIdle

SpecRegistry == InitRegistry /\ [][RegistryNext]_vars

\* ------------------------------------------------------------------ claims

\* C1: whenever the read loop of a connection ends, on the peer closing the
\* stream or on a malformed payload, _client_closed has been called exactly
\* once for that connection.
C1_DisconnectOnceOnLoopEnd ==
    \A c \in Conns :
        pc[c] \in {"closed", "died_decode"} => CountOf(hooks[c], "disconnect") = 1

\* C3: the messages decoded from a stream that recv hands over in pieces of
\* any size are those decoded from the same bytes delivered whole, and the
\* loop ends where the whole decoding ends.
C3_ChunkedEqualsWhole ==
    \A c \in Conns :
        LET w == DecodeWhole(Sent(c), <<>>) IN
        /\ IsPrefix(Messages(c), w.msgs)
        /\ pc[c] = "closed" => Messages(c) = w.msgs /\ w.end = "eof"
        /\ pc[c] = "died_decode" => Messages(c) = w.msgs /\ w.end = "malformed"
        /\ pc[c] # "died_struct"

\* A message decoded, and the next frame's payload partly in: 3 bytes of 10.
C3_Witness ==
    \E c \in Conns :
        /\ Messages(c) = <<MsgRegister>>
        /\ pc[c] = "body" /\ msglen[c] = 10 /\ Len(data[c]) = 3

RECURSIVE GoodPrefix(_)
GoodPrefix(items) ==
    IF items = <<>> \/ Head(items) \notin GoodFrames THEN <<>>
    ELSE <<Head(items)>> \o GoodPrefix(Tail(items))

\* How many of the frames lie wholly within the first n bytes.
RECURSIVE FramesWithin(_, _)
FramesWithin(frames, n) ==
    IF frames = <<>> \/ Len(Head(frames)) > n THEN 0
    ELSE 1 + FramesWithin(Tail(frames), n - Len(Head(frames)))

FrameMessage(frame) == JsonLoads(Drop(frame, 4)).val

\* C5: on every connection, whatever the other connection does,
\* _process_message has been called once for each frame received so far, in
\* the order the peer wrote them.
C5_PerConnectionOrder ==
    \A c \in Conns :
        LET good == GoodPrefix(written[c]) IN
        Messages(c) = [i \in 1..FramesWithin(good, rpos[c]) |-> FrameMessage(good[i])]

\* Two different messages on one connection while the other one is open.
C5_Witness ==
    \E c \in Conns, d \in Conns :
        /\ c # d
        /\ Messages(c) = <<MsgRegister, MsgNumber>>
        /\ pc[d] \in Reading

\* C6: the hooks of a connection are called in the order _client_connected,
\* _process_message any number of times, _client_closed: one
\* _client_connected, first; nothing after _client_closed.
C6_HookOrder ==
    \A c \in Conns :
        LET n == Len(hooks[c]) IN
        /\ pc[c] = "none" <=> n = 0
        /\ n > 0 => hooks[c][1] = ConnectEvent
        /\ \A i \in 2..n : hooks[c][i].h # "connect"
        /\ \A i \in 1..(n - 1) : hooks[c][i].h # "disconnect"

\* All three hooks were called for a connection.
C6_Witness ==
    \E c \in Conns :
        hooks[c] = <<ConnectEvent, MessageEvent(MsgRegister), DisconnectEvent>>

\* A step that ends the read loop of c leaves the accept loop and every
\* other connection as they were.
C7_Step ==
    \A c \in Conns :
        (pc[c] \in Reading /\ pc'[c] \in Died \cup {"closed"})
            => /\ listening' = listening
               /\ \A d \in Conns \ {c} :
                    /\ pc'[d] = pc[d]
                    /\ hooks'[d] = hooks[d]
                    /\ data'[d] = data[d]
                    /\ msglen'[d] = msglen[d]
                    /\ rpos'[d] = rpos[d]

\* While a thread has died, connections are still accepted.
C7_AcceptGoesOn ==
    \A c \in Conns, d \in Conns :
        (pc[c] \in Died \cup {"closed"} /\ pc[d] = "none") => ENABLED accept(d)

\* C7: the end of one connection's loop, on the peer closing, a malformed
\* payload, a socket error or an exception of _process_message, neither
\* stops the accept loop nor touches the loop of another connection.
C7_FailureIsIsolated == []C7_AcceptGoesOn /\ [][C7_Step]_vars

\* One thread has died of a malformed payload; the other connection has had
\* a message dispatched since and is still being read.
C7_Witness ==
    \E c \in Conns, d \in Conns :
        /\ pc[c] = "died_decode"
        /\ pc[d] \in Reading
        /\ Messages(d) # <<>>

\* C2: once stop() has ended, no writer is registered and no
\* __new_connection task is still in _process_connection.
C2_StopLeavesNothing ==
    stopped # "idle" => writers = {} /\ \A c \in Conns : apc[c] \notin AReading

\* C8: a connection is registered while it is handled, and is not once its
\* handling has ended, by a return or by an exception.
C8_RegisteredWhileHandled ==
    \A c \in Conns :
        /\ apc[c] \in AReading => c \in writers
        /\ apc[c] \in {"returned", "raised"} => c \notin writers

\* Once stop() has been called no connection is accepted and no message is
\* dispatched.
C9_Step ==
    stopped # "idle" =>
        /\ \A c \in Conns : apc[c] = "none" => apc'[c] = "none"
        /\ amsgs' = amsgs

\* C9: stop() ends the dispatching of messages and the accepting of
\* connections.
C9_NothingAfterStop == [][C9_Step]_vars

\* C10: stop() does not fail, and it has called close() on every writer
\* that was registered when it was called.
C10_StopClosesAll ==
    /\ stopped # "raised"
    /\ stopped = "returned" => atStop \subseteq closing

\* C11: every connection listen() accepted was handed to exactly one thread:
\* at most one thread reads a connection, and no connection is accepted
\* (_client_connected called for it) without a thread being started for it.
C11_OneUnitPerConnection ==
    \A c \in Conns :
        /\ units[c] <= 1
        /\ units[c] = CountOf(hooks[c], "connect")
        /\ (pc[c] # "none") = (units[c] = 1)

\* Both connections were accepted, and the thread of each dispatched a
\* message.
C11_Witness ==
    \A c \in Conns : units[c] = 1 /\ Len(Messages(c)) = 1

\* C12: an error of the socket while reading (the peer resets the
\* connection) ends like the peer closing it: the read loop is left through
\* the teardown and _client_closed is called exactly once.
C12_ResetIsLikeClose ==
    \A c \in Conns :
        peer[c] = "reset" =>
            /\ pc[c] = "closed"
            /\ CountOf(hooks[c], "disconnect") = 1

\* C13: every message _process_message was called with is a mapping whose
\* 'type' is one of the recognized kinds.
C13_OnlyRecognizedDispatched ==
    \A c \in Conns :
        \A i \in 1..Len(Messages(c)) : message_log_ok(Messages(c)[i])

\* C14: decode(encode(m)) = m, field for field, with and without
\* compression: what _read_message returns from the frames _write_message
\* wrote are the messages written, in order, and no frame fails to decode.
C14_RoundTrip ==
    /\ cpc # "failed"
    /\ Len(cgot) <= Len(csent)
    /\ \A i \in 1..Len(cgot) : cgot[i] = csent[i]

\* Compressed, a message with a nested field and one with a number of
\* several digits went through.
C14_Witness == cz /\ cgot = <<MsgChunk, MsgSized>>

\* C15: when the encoding of an outgoing message fails, no bytes are written
\* for it and the connection is not closed: its read loop keeps running, so
\* that later messages on it are still dispatched.
C15_Step ==
    \A c \in Conns :
        wfail'[c] > wfail[c] => out'[c] = out[c] /\ pc'[c] \in Reading

C15_EncodeFailureLeavesConnection == [][C15_Step]_vars

\* C16: removing a writer that is not in the registry is a no-op and raises
\* no error.
C16_RemoveIsIdempotent == rres # "KeyError"

\* C17: the 4-byte header of every frame written is the length of the
\* payload behind it, and the receiver consumes that many bytes and no more
\* before it decodes: between two messages it stands at the end of a frame,
\* and inside one it expects what is left of that frame, not a byte of the
\* next.
C17_HeaderIsPayloadLength ==
    LET done == Len(Concat(Take(cframes, Len(cgot)))) IN
    /\ \A i \in 1..Len(cframes) :
          /\ Len(cframes[i]) >= 4
          /\ Unpack(Take(cframes[i], 4)) = Len(cframes[i]) - 4
    /\ cpc = "hdr" => cpos = done
    /\ cpc = "body" =>
          /\ Len(cgot) < Len(cframes)
          /\ cpos = done + 4
          /\ cmsglen = Len(cframes[Len(cgot) + 1]) - 4

\* Two frames are on the stream back to back; the first was decoded and the
\* reader stands in front of the second.
C17_Witness ==
    /\ cz
    /\ Len(cframes) = 2
    /\ cgot = <<MsgChunk>>
    /\ cpc = "hdr"
    /\ cpos = Len(cframes[1])

\* C18: when _client_closed is called for a connection, every complete frame
\* its peer wrote before closing has been dispatched, in order and before
\* the _client_closed; a close at a frame boundary leaves no message out.
C18_DispatchedBeforeClosed ==
    \A c \in Conns :
        pc[c] = "closed" =>
            LET good == GoodPrefix(written[c]) IN
            hooks[c] = <<ConnectEvent>>
                       \o [i \in 1..Len(good) |-> MessageEvent(FrameMessage(good[i]))]
                       \o <<DisconnectEvent>>

\* The peer wrote two frames and closed behind the second.
C18_Witness ==
    \E c \in Conns :
        /\ written[c] = <<Frame(PayloadRegister), Frame(PayloadNumber)>>
        /\ hooks[c] = <<ConnectEvent, MessageEvent(MsgRegister),
                        MessageEvent(MsgNumber), DisconnectEvent>>

\* A step that takes a writer out of the registry is the return of that
\* writer's own _process_connection.
C19_Step ==
    \A c \in Conns :
        (c \in writers /\ c \notin writers')
            => apc[c] \in AReading /\ apc'[c] = "returned"

\* every connection whose _process_connection is running is registered
C19_RunningIsRegistered ==
    \A c \in Conns : apc[c] \in AReading => c \in writers

\* C19: every connection whose _process_connection is running is in
\* _writers: it was added before the handler started, and nothing takes it
\* out but its own handler, after _process_connection has returned.
C19_RegisteredWhileRunning ==
    []C19_RunningIsRegistered /\ [][C19_Step]_vars

\* stop() has closed the writer of a connection whose handler is still
\* running, and the writer is still registered.
C19_Witness ==
    \E c \in Conns :
        /\ c \in closing
        /\ apc[c] \in AReading
        /\ c \in writers

====
